---- MODULE Spec2Model ----
(***************************************************************************)
(* Model of the MCP server: the context registry (ContextManager) and the *)
(* HTTP routes that read it (Spec), the AgentManager (SpecAgents), the     *)
(* CoinGeckoContext (SpecCoinGecko), the BinanceContext (SpecBinance) and  *)
(* the handlers that pass instructions to agents (SpecHandlers).           *)
(*                                                                         *)
(* JavaScript values are modelled as follows.  An object is a TLA+ record  *)
(* whose DOMAIN is the set of properties it has, so a descriptor without   *)
(* an id or a capabilities list is a record without that field.  null and  *)
(* undefined are the records Null and Undefined.  A capability string is a *)
(* sequence of characters so that toLowerCase is computed, an array is a   *)
(* sequence, and a Map is the sequence of its entries in insertion order.  *)
(* A call returns Ret(v) or Throw(e); an async call settles to Resolved(v) *)
(* or Rejected(e).                                                         *)
(***************************************************************************)
EXTENDS Integers, Sequences, FiniteSets, TLC

VARIABLES pc, contexts, stored, inserted, last

\* The AgentManager: this.agents, the getAgent calls, the queue of their pending
\* continuations, the number of agents constructed and the agents handed out so far.
VARIABLES agents, calls, microtasks, instances, returned

\* The CoinGeckoContext: whether it was constructed, this.isProAccount, this.cache,
\* the getCoinPrice calls, the upstream HTTP calls made so far (history), the time in
\* milliseconds, the number of times it advanced, and the latest price stored under
\* each cache key with the time it was stored (history).
VARIABLES coingecko, isProAccount, cache, lookups, upstream, clock, ticks, lastSet

\* The BinanceContext: every WebSocket created so far, this.wsConnections,
\* this.callbacks, the pending reconnect timers in the order they were set, whether
\* close() was called, and the WebSockets close() left connecting or open (history).
VARIABLES sockets, wsConnections, callbacks, timers, closeCalled, leftOpen

\* The 'agentInstruction' socket messages and POST /agents/:id/process requests being
\* handled: for each its input, the handler's position, the calls it has made and the
\* replies it has sent.
VARIABLES requests

registryVars == <<pc, contexts, stored, inserted, last>>
agentVars == <<agents, calls, microtasks, instances, returned>>
marketVars == <<coingecko, isProAccount, cache, lookups, upstream, clock, ticks, lastSet>>
streamVars == <<sockets, wsConnections, callbacks, timers, closeCalled, leftOpen>>
handlerVars == <<requests>>
serviceVars == <<marketVars, streamVars, handlerVars>>

vars == <<pc, contexts, stored, inserted, last,
          agents, calls, microtasks, instances, returned,
          coingecko, isProAccount, cache, lookups, upstream, clock, ticks, lastSet,
          sockets, wsConnections, callbacks, timers, closeCalled, leftOpen,
          requests>>

\* ------------------------------------------------------------------ bounds

\* Largest number of entries readdirSync returns for the descriptor directory.
MaxFiles == 2

\* Longest capability list passed to findContextsByCapabilities.
MaxQuery == 2

\* Number of getAgent calls made, which may overlap.
MaxCalls == 3

\* Number of getCoinPrice calls made, which may overlap.
MaxLookups == 3

\* Number of times the clock advances.
MaxTicks == 3

\* Number of WebSockets created, by connectToStream calls and by reconnections.
MaxSockets == 3

\* Number of socket messages and HTTP requests handled, which may overlap.
MaxRequests == 2

\* ------------------------------------------------------------ JS values

Null == [jsnull |-> TRUE]
Undefined == [jsundefined |-> TRUE]

\* The value of a missing string property (id, type), kept apart from every string.
UndefinedStr == "<undefined>"

Ret(v) == [kind |-> "return", val |-> v]
Throw(e) == [kind |-> "throw", val |-> e]
Resolved(v) == [kind |-> "resolved", val |-> v]
Rejected(e) == [kind |-> "rejected", val |-> e]

IsNullish(v) == v = Null \/ v = Undefined

\* contextDef.id and context.type of an object; a missing property reads as undefined.
IdOf(def) == IF "id" \in DOMAIN def THEN def.id ELSE UndefinedStr
TypeOf(def) == IF "type" \in DOMAIN def THEN def.type ELSE UndefinedStr
HasCapabilities(def) == "capabilities" \in DOMAIN def

\* ------------------------------------------------------- String.toLowerCase

UpperChars == <<"A","B","C","D","E","F","G","H","I","J","K","L","M",
                "N","O","P","Q","R","S","T","U","V","W","X","Y","Z">>
LowerChars == <<"a","b","c","d","e","f","g","h","i","j","k","l","m",
                "n","o","p","q","r","s","t","u","v","w","x","y","z">>

LowerChar(c) ==
  IF \E i \in DOMAIN UpperChars : UpperChars[i] = c
  THEN LowerChars[CHOOSE i \in DOMAIN UpperChars : UpperChars[i] = c]
  ELSE c

toLowerCase(s) == [i \in DOMAIN s |-> LowerChar(s[i])]

\* ------------------------------------------------------------ ContextType

DEX == "dex"
NFT_MARKETPLACE == "nft_marketplace"
ORACLE == "oracle"
GOVERNANCE == "governance"
SOCIAL == "social"
IDENTITY == "identity"
STORAGE == "storage"

ContextType == {DEX, NFT_MARKETPLACE, ORACLE, GOVERNANCE, SOCIAL, IDENTITY, STORAGE}

\* ------------------------------------------------------------- Map<K, V>

MapHas(m, k) == \E i \in DOMAIN m : m[i].key = k

MapGet(m, k) ==
  IF MapHas(m, k)
  THEN m[CHOOSE i \in DOMAIN m : m[i].key = k /\ \A j \in 1..(i-1) : m[j].key # k].value
  ELSE Undefined

\* A faulty Map.set that appends an entry even when the key is already held.
MapSetAppends(m, k, v) == Append(m, [key |-> k, value |-> v])

\* A faulty Map.set that moves an overwritten key to the end (delete, then insert).
MapSetMovesToEnd(m, k, v) ==
  Append(SelectSeq(m, LAMBDA e : e.key # k), [key |-> k, value |-> v])

\* A faulty Map.set that evicts the oldest entry when it adds a key to a non-empty map.
MapSetEvicts(m, k, v) ==
  IF MapHas(m, k)
  THEN [i \in DOMAIN m |-> IF m[i].key = k THEN [key |-> k, value |-> v] ELSE m[i]]
  ELSE Append(IF m = <<>> THEN m ELSE Tail(m), [key |-> k, value |-> v])

\* Map.set: the value of a held key is replaced in place, a new key is appended.
MapSet(m, k, v) ==
  IF MapHas(m, k)
  THEN [i \in DOMAIN m |-> IF m[i].key = k THEN [key |-> k, value |-> v] ELSE m[i]]
  ELSE Append(m, [key |-> k, value |-> v])

MapValues(m) == [i \in DOMAIN m |-> m[i].value]

\* ------------------------------------------------ descriptors (inputs)

token_swaps == <<"t","o","k","e","n","_","s","w","a","p","s">>
Token_Swaps == <<"T","o","k","e","n","_","S","w","a","p","s">>
route_optimization == <<"r","o","u","t","e">>
nft_listing == <<"n","f","t","_","l","i","s","t","i","n","g">>

JupiterId == "jupiter-dex-v4"
MagicEdenId == "magiceden-v2"
BadTypeId == "bad-type"
NonexistentId == "nonexistent-id"

Jupiter ==
  [id |-> JupiterId, name |-> "Jupiter Aggregator", type |-> DEX,
   capabilities |-> <<token_swaps, route_optimization>>, authRequired |-> FALSE]

\* A second descriptor with Jupiter's id and other fields.
JupiterMixedCase ==
  [id |-> JupiterId, name |-> "Jupiter v5", type |-> ORACLE,
   capabilities |-> <<Token_Swaps>>, authRequired |-> TRUE]

MagicEden ==
  [id |-> MagicEdenId, name |-> "Magic Eden NFT Marketplace", type |-> NFT_MARKETPLACE,
   capabilities |-> <<nft_listing>>, authRequired |-> FALSE]

\* Untyped file content: a descriptor whose type is outside the enum, and an object
\* with no id, no type and no capabilities list.
BadType ==
  [id |-> BadTypeId, name |-> "Bad type", type |-> "amm",
   capabilities |-> <<token_swaps>>]
Bare == [name |-> "Bare"]

Descriptors == {Jupiter, JupiterMixedCase, MagicEden, BadType, Bare}

Keys == {JupiterId, MagicEdenId, BadTypeId, NonexistentId, UndefinedStr}

\* ------------------------------------------------------ the file system

\* A file name is the sequence of its dot-separated parts, the last one the extension.
FileNames ==
  { <<"jupiter-dex", ".yaml">>, <<"magiceden-marketplace", ".yml">>,
    <<"raydium", ".json">>, <<"test", ".txt">> }

\* What a file holds: YAML text or JSON text of a value, text that is neither, or nothing.
FileContents ==
  { [text |-> "yaml", value |-> Jupiter],
    [text |-> "json", value |-> MagicEden],
    [text |-> "json", value |-> JupiterMixedCase],
    [text |-> "json", value |-> BadType],
    [text |-> "yaml", value |-> Bare],
    [text |-> "garbage", value |-> Undefined],
    [text |-> "empty", value |-> Undefined] }

FileEntries == [name : FileNames, content : FileContents]

\* The listings readdirSync can return: distinct names, in any order.
Listings ==
  UNION { { fs \in [1..n -> FileEntries] :
              \A i, j \in 1..n : i # j => fs[i].name # fs[j].name } : n \in 0..MaxFiles }

Directories ==
  { [kind |-> "missing", files |-> <<>>], [kind |-> "notdir", files |-> <<>>] }
  \cup { [kind |-> "dir", files |-> fs] : fs \in Listings }

existsSync(dir) == dir.kind # "missing"

readdirSync(dir) == IF dir.kind = "dir" THEN Ret(dir.files) ELSE Throw("ENOTDIR")

endsWith(file, suffix) == Len(file) > 0 /\ file[Len(file)] = suffix

\* JSON.parse: only JSON text parses.
JSONparse(content) ==
  IF content.text = "json" THEN Ret(content.value) ELSE Throw("SyntaxError")

\* yaml.parse: YAML text and JSON text parse, an empty document is null.
yamlparse(content) ==
  CASE content.text \in {"yaml", "json"} -> Ret(content.value)
    [] content.text = "empty" -> Ret(Null)
    [] OTHER -> Throw("YAMLParseError")

\* -------------------------------------------- ContextManager.loadContexts

\* A faulty extension test that forgets '.yml'.
RecognizedNoYml(file) == endsWith(file, ".yaml") \/ endsWith(file, ".json")

\* The condition of line 67.
Recognized(file) ==
  endsWith(file, ".yaml") \/ endsWith(file, ".yml") \/ endsWith(file, ".json")

\* Lines 73-77.
ParseFile(file, content) ==
  IF endsWith(file, ".json") THEN JSONparse(content) ELSE yamlparse(content)

\* The for loop of lines 66-82 from index i on.  acc holds this.contexts, loadedCount,
\* the names passed to readFileSync and the Map.set calls made so far.
RECURSIVE LoadFiles(_, _, _)
LoadFiles(files, i, acc) ==
  IF i > Len(files) THEN [acc EXCEPT !.kind = "return"]
  ELSE
    LET file == files[i].name IN
    IF Recognized(file) THEN
      LET read == [acc EXCEPT !.reads = Append(@, file)]
          parsed == ParseFile(file, files[i].content)
      IN
        IF parsed.kind = "throw" THEN [read EXCEPT !.kind = "throw"]
        ELSE IF IsNullish(parsed.val) THEN [read EXCEPT !.kind = "throw"]
        ELSE
          LET contextDef == parsed.val IN
            LoadFiles(files, i + 1,
              [read EXCEPT
                 !.contexts = MapSet(@, IdOf(contextDef), contextDef),
                 !.writes = Append(@, [key |-> IdOf(contextDef), value |-> contextDef]),
                 !.loadedCount = @ + 1])
    ELSE LoadFiles(files, i + 1, acc)

\* The try block, lines 58-84.
LoadBody(ctxs, dir) ==
  LET acc0 == [kind |-> "return", contexts |-> ctxs, loadedCount |-> 0,
               reads |-> <<>>, writes |-> <<>>, log |-> <<>>]
  IN
    IF ~existsSync(dir)
    THEN [acc0 EXCEPT !.log = <<[level |-> "warn"]>>]
    ELSE
      LET files == readdirSync(dir) IN
        IF files.kind = "throw" THEN [acc0 EXCEPT !.kind = "throw"]
        ELSE
          LET done == LoadFiles(files.val, 1, acc0) IN
            IF done.kind = "throw" THEN done
            ELSE [done EXCEPT
                    !.log = <<[level |-> "info", loadedCount |-> done.loadedCount]>>]

\* loadContexts without its catch clause.
loadContextsNoCatch(ctxs, dir) == LoadBody(ctxs, dir)

\* Lines 56-88: whatever the try block throws is logged and swallowed.
loadContexts(ctxs, dir) ==
  LET body == LoadBody(ctxs, dir) IN
    IF body.kind = "throw"
    THEN [body EXCEPT !.kind = "return", !.log = <<[level |-> "error"]>>]
    ELSE body

\* ---------------------------------------------- ContextManager, the reads

\* getContext without the `|| null`.
getContextNoNull(ctxs, id) == Ret(MapGet(ctxs, id))

\* Lines 95-97.  Every stored value is an object, hence truthy.
getContext(ctxs, id) ==
  LET v == MapGet(ctxs, id) IN Ret(IF IsNullish(v) THEN Null ELSE v)

\* Lines 103-105.
getAllContexts(ctxs) == Ret(MapValues(ctxs))

\* Lines 112-115.
getContextsByType(ctxs, type) ==
  Ret(SelectSeq(MapValues(ctxs), LAMBDA context : TypeOf(context) = type))

\* Lines 126-130: capabilities.every(cap => context.capabilities.some(...)).  The
\* callback of every runs only for a non-empty list, and reading .some of a missing
\* capabilities property is a TypeError.
HasAllCapabilities(context, capabilities) ==
  IF capabilities = <<>> THEN Ret(TRUE)
  ELSE IF ~HasCapabilities(context) THEN Throw("TypeError")
  ELSE Ret(\A c \in DOMAIN capabilities :
             \E k \in DOMAIN context.capabilities :
               toLowerCase(context.capabilities[k]) = toLowerCase(capabilities[c]))

\* The for loop of lines 125-135 from index i on.
RECURSIVE FindLoop(_, _, _, _)
FindLoop(values, i, capabilities, matches) ==
  IF i > Len(values) THEN Ret(matches)
  ELSE
    LET context == values[i]
        hasAllCapabilities == HasAllCapabilities(context, capabilities)
    IN
      IF hasAllCapabilities.kind = "throw" THEN hasAllCapabilities
      ELSE IF hasAllCapabilities.val
           THEN FindLoop(values, i + 1, capabilities, Append(matches, context))
           ELSE FindLoop(values, i + 1, capabilities, matches)

\* Lines 122-138.
findContextsByCapabilities(ctxs, capabilities) ==
  FindLoop(MapValues(ctxs), 1, capabilities, <<>>)

\* A checkPermission that grants access to held contexts only.
checkPermissionHeld(agentId, contextId) == Resolved(MapHas(contexts, contextId))

\* Lines 173-179.
checkPermission(agentId, contextId) == Resolved(TRUE)

\* ------------------------------------------ ContextManager.registerContext

NewContextId == "G6xptnrkj3Z3JegB3EqJPGqnVBKGLQXTqpEL9kHpMZN5"

\* A two-phase insertion: a placeholder holding only the id is stored first, the
\* fields would follow in a later step.
RegisterBodyPlaceholder(ctxs, contextDef) ==
  IF IsNullish(contextDef)
  THEN [kind |-> "throw", contexts |-> ctxs, writes |-> <<>>, val |-> "TypeError"]
  ELSE [kind |-> "return",
        contexts |-> MapSet(ctxs, IdOf(contextDef), [id |-> IdOf(contextDef)]),
        writes |-> <<[key |-> IdOf(contextDef), value |-> [id |-> IdOf(contextDef)]]>>,
        val |-> NewContextId]

\* The try block, lines 149-160: reading contextDef.id of null or undefined throws.
RegisterBody(ctxs, contextDef) ==
  IF IsNullish(contextDef)
  THEN [kind |-> "throw", contexts |-> ctxs, writes |-> <<>>, val |-> "TypeError"]
  ELSE [kind |-> "return",
        contexts |-> MapSet(ctxs, IdOf(contextDef), contextDef),
        writes |-> <<[key |-> IdOf(contextDef), value |-> contextDef]>>,
        val |-> NewContextId]

\* Lines 147-165.  The catch clause reads contextDef.name for its log line, which
\* throws again when contextDef is null or undefined; an async function that throws
\* returns a rejected promise.
registerContext(ctxs, contextDef) ==
  LET body == RegisterBody(ctxs, contextDef) IN
    IF body.kind = "throw"
    THEN IF IsNullish(contextDef)
         THEN [res |-> Rejected("TypeError"), contexts |-> body.contexts,
               writes |-> body.writes]
         ELSE [res |-> Resolved(Null), contexts |-> body.contexts,
               writes |-> body.writes]
    ELSE [res |-> Resolved(body.val), contexts |-> body.contexts,
          writes |-> body.writes]

\* ------------------------------------------------------------ the routes

\* GET /contexts/type/:type, wallet-manager.ts lines 157-165.
ContextsByTypeRoute(ctxs, type) ==
  LET found == getContextsByType(ctxs, type) IN
    IF found.kind = "throw"
    THEN [status |-> 400, body |-> [error |-> "Invalid context type"]]
    ELSE [status |-> 200, body |-> found.val]

\* GET /contexts/:id without the return before res.status(404).
ContextByIdRouteFallsThrough(ctxs, id) ==
  LET context == getContext(ctxs, id).val IN
    IF context = Null
    THEN <<[status |-> 404, body |-> [error |-> "Context not found"]],
           [status |-> 404, body |-> context]>>
    ELSE <<[status |-> 200, body |-> context]>>

\* GET /contexts/:id, wallet-manager.ts lines 168-177: the responses sent, in order.
\* Every stored value is an object, so !context holds for null alone.
ContextByIdRoute(ctxs, id) ==
  LET context == getContext(ctxs, id).val IN
    IF context = Null
    THEN <<[status |-> 404, body |-> [error |-> "Context not found"]]>>
    ELSE <<[status |-> 200, body |-> context]>>

\* ------------------------------------------------------------- the inputs

QueryIds == Keys

QueryTypes == ContextType \cup {"amm", UndefinedStr}

\* req.params.type is always a string.
RouteTypes == ContextType \cup {"amm"}

\* req.params.id is always a string.
RouteIds == Keys \ {UndefinedStr}

QueryCaps == {token_swaps, Token_Swaps, nft_listing}

QueryLists == UNION { [1..n -> QueryCaps] : n \in 0..MaxQuery }

RegisterInputs == Descriptors \cup {Null, Undefined}

AgentIds == {"agent-1"}

\* ============================================================ AgentManager

\* null in a position that otherwise holds a string (Promise<string | null>).
NullStr == "<null>"

\* !agentType
Falsy(str) == str \in {NullStr, UndefinedStr, ""}

PublicKeys == {"agent-1", "agent-2"}

\* agent-manager.ts lines 108-125.  No key of agentMapping is the string of a public
\* key handed in here, so the type is types[Math.floor(Math.random() * 2)]; random is
\* that index.
getAgentType(agentId, random) ==
  LET agentMapping == [k \in {"3XysKy...", "5tGpV9..."} |->
                         IF k = "3XysKy..." THEN "defi" ELSE "nft"]
      types == <<"defi", "nft">>
  IN
    IF agentId \notin DOMAIN agentMapping
    THEN Resolved(types[random + 1])
    ELSE Resolved(agentMapping[agentId])

\* What awaiting this.getAgentType can yield: the answers of the code above, and those
\* of the registry lookup it stands for as the tests stub it (agent-manager.test.ts
\* lines 72-82: a type that is neither 'defi' nor 'nft'), null and a failed lookup.
AgentTypeOutcomes(agentId) ==
  { getAgentType(agentId, random) : random \in 0..1 }
  \cup { Resolved("unknown"), Resolved(NullStr), Rejected("Error") }

\* Lines 70-100.  constructed is the next instance number; throws says whether the
\* agent's constructor throws.  The function has no await: it settles when called.
createAgentByType(agentId, type, constructed, throws) ==
  IF type \in {"defi", "nft"}
  THEN IF throws THEN Resolved(Null)
       ELSE Resolved([instance |-> constructed + 1, kind |-> type, agentId |-> agentId])
  ELSE Resolved(Null)

\* A getAgent that caches whatever createAgentByType returned.
CacheAgentAlways(ags, agentIdStr, agent) == MapSet(ags, agentIdStr, agent)

\* Lines 53-55.
CacheAgent(ags, agentIdStr, agent) ==
  IF agent # Null THEN MapSet(ags, agentIdStr, agent) ELSE ags

Idle == [pc |-> "idle"]

AgentsInit ==
  /\ agents = <<>>
  /\ calls = [c \in 1..MaxCalls |-> Idle]
  /\ microtasks = <<>>
  /\ instances = 0
  /\ returned = [id \in PublicKeys |-> {}]

\* A call that settles: its result, and the agents handed out.
Settle(call, res) == [call EXCEPT !.pc = "done", !.res = res]

Handed(call, res) ==
  IF res.val # Null
  THEN [returned EXCEPT ![call.agentId] = @ \cup {res.val}]
  ELSE returned

\* Both promises getAgent awaits are settled when the call that made them returns
\* (getAgentType and createAgentByType contain no await), so each await costs one turn
\* of the microtask queue and the continuations run in the order they were queued.
\* A call can begin at any point between two continuations.

\* getAgent(agentId) up to its first await, lines 28-44.  after records the agents
\* handed out for agentId before the call began (history).
GetAgentCall(c) ==
  /\ calls[c].pc = "idle"
  /\ c > 1 => calls[c - 1].pc # "idle"
  /\ \E agentId \in PublicKeys :
       LET call == [pc |-> "idle", agentId |-> agentId, after |-> returned[agentId],
                    agentType |-> Resolved(NullStr), agent |-> Resolved(Null),
                    hit |-> FALSE, created |-> FALSE, cached |-> FALSE,
                    res |-> Resolved(Null)]
       IN
         IF MapHas(agents, agentId)
         THEN LET found == MapGet(agents, agentId)
                  res == Resolved(IF IsNullish(found) THEN Null ELSE found)
              IN /\ calls' = [calls EXCEPT ![c] = Settle([call EXCEPT !.hit = TRUE], res)]
                 /\ returned' = Handed(call, res)
                 /\ UNCHANGED microtasks
         ELSE /\ \E agentType \in AgentTypeOutcomes(agentId) :
                   calls' = [calls EXCEPT
                               ![c] = [call EXCEPT !.pc = "awaitType",
                                                   !.agentType = agentType]]
              /\ microtasks' = Append(microtasks, c)
              /\ UNCHANGED returned
  /\ UNCHANGED <<agents, instances, registryVars, serviceVars>>

\* From the resumption after `await this.getAgentType` to the next await, lines 44-52.
GetAgentTypeResolved(c) ==
  /\ calls[c].pc = "awaitType"
  /\ microtasks # <<>> /\ Head(microtasks) = c
  /\ LET call == calls[c] IN
       IF call.agentType.kind = "rejected" \/ Falsy(call.agentType.val)
       THEN /\ calls' = [calls EXCEPT ![c] = Settle(call, Resolved(Null))]
            /\ microtasks' = Tail(microtasks)
            /\ UNCHANGED instances
       ELSE \E throws \in BOOLEAN :
              LET agent == createAgentByType(call.agentId, call.agentType.val,
                                             instances, throws)
              IN /\ calls' = [calls EXCEPT
                                ![c] = [call EXCEPT !.pc = "awaitCreate",
                                                    !.agent = agent,
                                                    !.created = agent.val # Null]]
                 /\ microtasks' = Append(Tail(microtasks), c)
                 /\ instances' = IF agent.val # Null THEN instances + 1 ELSE instances
  /\ UNCHANGED <<agents, returned, registryVars, serviceVars>>

\* From the resumption after `await this.createAgentByType` to the return, lines 52-57.
GetAgentCreated(c) ==
  /\ calls[c].pc = "awaitCreate"
  /\ microtasks # <<>> /\ Head(microtasks) = c
  /\ microtasks' = Tail(microtasks)
  /\ LET call == calls[c]
         agent == call.agent.val
         written == CacheAgent(agents, call.agentId, agent)
     IN /\ agents' = written
        /\ calls' = [calls EXCEPT
                       ![c] = Settle([call EXCEPT !.cached = (written # agents)],
                                     Resolved(agent))]
        /\ returned' = Handed(call, Resolved(agent))
  /\ UNCHANGED <<instances, registryVars, serviceVars>>

NextAgents ==
  \E c \in 1..MaxCalls :
    \/ GetAgentCall(c)
    \/ GetAgentTypeResolved(c)
    \/ GetAgentCreated(c)

\* -------------------------------------------------------- CoinGeckoContext

\* The delay before every request of a context without API key, in milliseconds.
RateLimitDelay == 350

\* The time to live of a cached price, in seconds.
PriceTTL == 60

\* A number, as a JavaScript value.
Num(n) == [num |-> n]

\* if (v), for the values a cache lookup or a price can be.
Truthy(v) == v \notin {Undefined, Null, Num(0)}

CoinIds == {"bitcoin", "solana"}
VsCurrencies == {"usd"}

\* `coin_price_${coinId}_${vsCurrency}`
cacheKeyOf(coinId, vsCurrency) == <<"coin_price", coinId, vsCurrency>>

CacheKeys == { cacheKeyOf(coinId, vsCurrency) : coinId \in CoinIds, vsCurrency \in VsCurrencies }

\* The prices the upstream can answer with.
Prices == {Num(0), Num(100)}

\* node-cache: an entry [v, t] is its value and the time it expires at (0: never); get
\* returns undefined for a key without entry or with an entry past its time, which it
\* deletes.
NodeCacheLive(c, key, now) ==
  /\ c[key] # Undefined
  /\ ~(c[key].t # 0 /\ c[key].t < now)

NodeCacheGet(c, key, now) == IF NodeCacheLive(c, key, now) THEN c[key].v ELSE Undefined

NodeCacheAfterGet(c, key, now) ==
  IF NodeCacheLive(c, key, now) THEN c ELSE [c EXCEPT ![key] = Undefined]

NodeCacheSet(c, key, value, ttl, now) ==
  [c EXCEPT ![key] = [v |-> value, t |-> IF ttl = 0 THEN 0 ELSE now + ttl * 1000]]

MarketInit ==
  /\ coingecko = "new"
  /\ isProAccount = FALSE
  /\ cache = [key \in CacheKeys |-> Undefined]
  /\ lookups = [c \in 1..MaxLookups |-> Idle]
  /\ upstream = <<>>
  /\ clock = 0
  /\ ticks = 0
  /\ lastSet = [key \in CacheKeys |-> Undefined]

\* new CoinGeckoContext(apiKey), lines 36-48: isProAccount = !!apiKey.
NewCoinGeckoContext ==
  /\ coingecko = "new"
  /\ coingecko' = "ready"
  /\ \E hasApiKey \in BOOLEAN : isProAccount' = hasApiKey
  /\ UNCHANGED <<cache, lookups, upstream, clock, ticks, lastSet>>
  /\ UNCHANGED <<registryVars, agentVars, streamVars, handlerVars>>

\* The getCoinPrice calls that have not settled.
InFlight(key) ==
  { d \in 1..MaxLookups :
      lookups[d].pc \in {"sleeping", "requesting"} /\ lookups[d].cacheKey = key }

\* axios.get is called, line 104.
SendRequest(call) ==
  /\ upstream' = Append(upstream, [cacheKey |-> call.cacheKey, at |-> clock])

\* getCoinPrice(coinId, vsCurrency) up to its first await: the cache lookup of lines
\* 160-166, then makeRequest up to the await of line 101 (without API key) or to the
\* await of axios.get on line 104 (with one).  inflight, prior and start record the
\* calls for the same key that had not settled, the latest price stored under the key
\* and the time when the call began (history).
GetCoinPrice(c) ==
  /\ coingecko = "ready"
  /\ lookups[c].pc = "idle"
  /\ c > 1 => lookups[c - 1].pc # "idle"
  /\ \E coinId \in CoinIds, vsCurrency \in VsCurrencies :
       LET cacheKey == cacheKeyOf(coinId, vsCurrency)
           cachedData == NodeCacheGet(cache, cacheKey, clock)
           call == [pc |-> "idle", cacheKey |-> cacheKey, start |-> clock,
                    inflight |-> InFlight(cacheKey), prior |-> lastSet[cacheKey],
                    wake |-> 0, sent |-> FALSE, hit |-> FALSE,
                    res |-> Resolved(Undefined)]
       IN
         /\ cache' = NodeCacheAfterGet(cache, cacheKey, clock)
         /\ IF Truthy(cachedData)
            THEN /\ lookups' = [lookups EXCEPT
                                  ![c] = [call EXCEPT !.pc = "done", !.hit = TRUE,
                                                      !.res = Resolved(cachedData)]]
                 /\ UNCHANGED upstream
            ELSE IF isProAccount
            THEN /\ lookups' = [lookups EXCEPT
                                  ![c] = [call EXCEPT !.pc = "requesting",
                                                      !.sent = TRUE]]
                 /\ SendRequest(call)
            ELSE /\ lookups' = [lookups EXCEPT
                                  ![c] = [call EXCEPT !.pc = "sleeping",
                                                      !.wake = clock + RateLimitDelay]]
                 /\ UNCHANGED upstream
  /\ UNCHANGED <<coingecko, isProAccount, clock, ticks, lastSet>>
  /\ UNCHANGED <<registryVars, agentVars, streamVars, handlerVars>>

\* The timer of line 101 fires and makeRequest goes on to axios.get, line 104.
RateLimitTimerFires(c) ==
  /\ lookups[c].pc = "sleeping"
  /\ clock >= lookups[c].wake
  /\ lookups' = [lookups EXCEPT ![c] = [@ EXCEPT !.pc = "requesting", !.sent = TRUE]]
  /\ SendRequest(lookups[c])
  /\ UNCHANGED <<coingecko, isProAccount, cache, clock, ticks, lastSet>>
  /\ UNCHANGED <<registryVars, agentVars, streamVars, handlerVars>>

\* axios.get settles: with a price, which getCoinPrice caches for PriceTTL seconds and
\* returns (lines 173-178), or with a failure, which makeRequest rethrows and
\* getCoinPrice turns into its own Error (lines 106-116 and 179-182).
UpstreamResponds(c) ==
  /\ lookups[c].pc = "requesting"
  /\ \/ \E price \in Prices :
          /\ cache' = NodeCacheSet(cache, lookups[c].cacheKey, price, PriceTTL, clock)
          /\ lastSet' = [lastSet EXCEPT
                           ![lookups[c].cacheKey] = [v |-> price, at |-> clock]]
          /\ lookups' = [lookups EXCEPT
                           ![c] = [@ EXCEPT !.pc = "done", !.res = Resolved(price)]]
     \/ /\ lookups' = [lookups EXCEPT
                          ![c] = [@ EXCEPT !.pc = "done",
                                           !.res = Rejected("Failed to fetch price")]]
        /\ UNCHANGED <<cache, lastSet>>
  /\ UNCHANGED <<coingecko, isProAccount, upstream, clock, ticks>>
  /\ UNCHANGED <<registryVars, agentVars, streamVars, handlerVars>>

\* The amounts of time that pass between two steps, unless a timer is due earlier.
Elapses == {1, PriceTTL * 1000}

\* Time passes, up to the next pending timer at most: a timer fires when it is due.
TimePasses ==
  /\ coingecko = "ready"
  /\ ticks < MaxTicks
  /\ LET sleeping == { c \in 1..MaxLookups : lookups[c].pc = "sleeping" } IN
       \E d \in Elapses \cup { lookups[c].wake - clock : c \in sleeping } :
         /\ d > 0
         /\ \A c \in sleeping : clock + d <= lookups[c].wake
         /\ clock' = clock + d
  /\ ticks' = ticks + 1
  /\ UNCHANGED <<coingecko, isProAccount, cache, lookups, upstream, lastSet>>
  /\ UNCHANGED <<registryVars, agentVars, streamVars, handlerVars>>

NextCoinGecko ==
  \/ NewCoinGeckoContext
  \/ \E c \in 1..MaxLookups :
       \/ GetCoinPrice(c)
       \/ RateLimitTimerFires(c)
       \/ UpstreamResponds(c)
  \/ TimePasses

\* ---------------------------------------------------------- BinanceContext

BTCUSDT == <<"B","T","C","U","S","D","T">>

Symbols == {BTCUSDT}
Streams == {"ticker"}
Callbacks == {"onTicker", "onAlert"}

\* `${symbol.toLowerCase()}@${stream}`
streamKeyOf(symbol, stream) == <<toLowerCase(symbol), stream>>

\* A WebSocket and what its handlers close over.  state is "connecting", "open",
\* "closing" (ws.close() was called on an open socket), "aborted" (ws.close() was
\* called while connecting: 'error' and 'close' follow), "errored" ('error' was
\* emitted, 'close' follows) or "closed" ('close' was emitted).  parent is the
\* WebSocket whose reconnect timer created this one (0: a connectToStream call from
\* outside), afterClose whether close() had been called before (history).
NewWebSocket(symbol, stream, callback, parent) ==
  [symbol |-> symbol, stream |-> stream, callback |-> callback,
   state |-> "connecting", parent |-> parent, afterClose |-> closeCalled]

\* connectToStream(symbol, stream, callback), lines 73-128, on st = [sockets,
\* wsConnections].
connectToStream(st, symbol, stream, callback, parent) ==
  LET ws == Len(st.sockets) + 1 IN
    [sockets |-> Append(st.sockets, NewWebSocket(symbol, stream, callback, parent)),
     wsConnections |-> MapSet(st.wsConnections, streamKeyOf(symbol, stream), ws)]

\* callbacks.forEach(callback => this.connectToStream(symbol, stream, callback)),
\* lines 142-144.
RECURSIVE ReconnectEach(_, _, _, _, _)
ReconnectEach(st, symbol, stream, cbs, parent) ==
  IF cbs = <<>> THEN st
  ELSE ReconnectEach(connectToStream(st, symbol, stream, Head(cbs), parent),
                     symbol, stream, Tail(cbs), parent)

\* const callbacks = this.callbacks.get(streamKey) || [], line 139.
StoredCallbacks(cbs, ws) ==
  LET streamKey == streamKeyOf(ws.symbol, ws.stream) IN
    IF MapHas(cbs, streamKey) THEN MapGet(cbs, streamKey) ELSE <<>>

\* The 'message' handler's bookkeeping, lines 101-109.
StoreCallback(cbs, streamKey, callback) ==
  LET withKey == IF ~MapHas(cbs, streamKey) THEN MapSet(cbs, streamKey, <<>>) ELSE cbs
      list == MapGet(withKey, streamKey)
  IN IF \E i \in DOMAIN list : list[i] = callback
     THEN withKey
     ELSE MapSet(withKey, streamKey, Append(list, callback))

\* ws.close(): an open socket starts closing, a connecting one aborts its handshake,
\* any other is left as it is.
WsClose(ws) ==
  [ws EXCEPT !.state = IF @ = "open" THEN "closing"
                       ELSE IF @ = "connecting" THEN "aborted"
                       ELSE @]

\* for (const [key, ws] of this.wsConnections.entries()) ws.close(), lines 253-256.
CloseAll(socks, conns) ==
  [ws \in DOMAIN socks |->
     IF \E i \in DOMAIN conns : conns[i].value = ws THEN WsClose(socks[ws]) ELSE socks[ws]]

StreamInit ==
  /\ sockets = <<>>
  /\ wsConnections = <<>>
  /\ callbacks = <<>>
  /\ timers = <<>>
  /\ closeCalled = FALSE
  /\ leftOpen = {}

\* connectToStream called from outside, before close().
ConnectToStream ==
  /\ ~closeCalled
  /\ Len(sockets) < MaxSockets
  /\ \E symbol \in Symbols, stream \in Streams, callback \in Callbacks :
       LET st == connectToStream([sockets |-> sockets, wsConnections |-> wsConnections],
                                 symbol, stream, callback, 0)
       IN /\ sockets' = st.sockets
          /\ wsConnections' = st.wsConnections
  /\ UNCHANGED <<callbacks, timers, closeCalled, leftOpen>>
  /\ UNCHANGED <<registryVars, agentVars, marketVars, handlerVars>>

\* 'open', lines 83-85.
SocketOpens(ws) ==
  /\ ws \in DOMAIN sockets
  /\ sockets[ws].state = "connecting"
  /\ sockets' = [sockets EXCEPT ![ws].state = "open"]
  /\ UNCHANGED <<wsConnections, callbacks, timers, closeCalled, leftOpen>>
  /\ UNCHANGED <<registryVars, agentVars, marketVars, handlerVars>>

\* 'message', lines 87-113; a socket that is closing still receives messages until
\* the peer has answered the close.  JSON.parse or the callback may throw, and then
\* the callback is not stored.
SocketMessage(ws) ==
  /\ ws \in DOMAIN sockets
  /\ sockets[ws].state \in {"open", "closing"}
  /\ \E throws \in BOOLEAN :
       callbacks' = IF throws THEN callbacks
                    ELSE StoreCallback(callbacks,
                                       streamKeyOf(sockets[ws].symbol, sockets[ws].stream),
                                       sockets[ws].callback)
  /\ UNCHANGED <<sockets, wsConnections, timers, closeCalled, leftOpen>>
  /\ UNCHANGED <<registryVars, agentVars, marketVars, handlerVars>>

\* reconnect(symbol, stream) up to setTimeout, lines 133-145.
SetReconnectTimer(ws) == timers' = Append(timers, ws)

\* 'error', lines 115-119: of a failed connection, or of a handshake aborted by
\* ws.close().  The socket emits 'close' afterwards.
SocketError(ws) ==
  /\ ws \in DOMAIN sockets
  /\ sockets[ws].state \in {"connecting", "open", "aborted"}
  /\ sockets' = [sockets EXCEPT ![ws].state = "errored"]
  /\ SetReconnectTimer(ws)
  /\ UNCHANGED <<wsConnections, callbacks, closeCalled, leftOpen>>
  /\ UNCHANGED <<registryVars, agentVars, marketVars, handlerVars>>

\* 'close', lines 121-125: after an error, after ws.close(), or closed by the peer.
SocketClose(ws) ==
  /\ ws \in DOMAIN sockets
  /\ sockets[ws].state \in {"open", "errored", "closing"}
  /\ sockets' = [sockets EXCEPT ![ws].state = "closed"]
  /\ SetReconnectTimer(ws)
  /\ UNCHANGED <<wsConnections, callbacks, closeCalled, leftOpen>>
  /\ UNCHANGED <<registryVars, agentVars, marketVars, handlerVars>>

\* The callback of setTimeout, lines 135-145.  All timers have the same delay, so they
\* fire in the order they were set.
ReconnectTimerFires ==
  /\ timers # <<>>
  /\ LET ws == Head(timers)
         cbs == StoredCallbacks(callbacks, sockets[ws])
         st == ReconnectEach([sockets |-> sockets, wsConnections |-> wsConnections],
                             sockets[ws].symbol, sockets[ws].stream, cbs, ws)
     IN /\ Len(sockets) + Len(cbs) <= MaxSockets
        /\ sockets' = st.sockets
        /\ wsConnections' = st.wsConnections
  /\ timers' = Tail(timers)
  /\ UNCHANGED <<callbacks, closeCalled, leftOpen>>
  /\ UNCHANGED <<registryVars, agentVars, marketVars, handlerVars>>

\* close(), lines 252-260.
Close ==
  /\ ~closeCalled
  /\ sockets' = CloseAll(sockets, wsConnections)
  /\ wsConnections' = <<>>
  /\ callbacks' = <<>>
  /\ closeCalled' = TRUE
  /\ leftOpen' = { ws \in DOMAIN sockets :
                     CloseAll(sockets, wsConnections)[ws].state \in {"connecting", "open"} }
  /\ UNCHANGED timers
  /\ UNCHANGED <<registryVars, agentVars, marketVars, handlerVars>>

NextBinance ==
  \/ ConnectToStream
  \/ \E ws \in 1..MaxSockets :
       \/ SocketOpens(ws)
       \/ SocketMessage(ws)
       \/ SocketError(ws)
       \/ SocketClose(ws)
  \/ ReconnectTimerFires
  \/ Close

\* ------------------------------------------------- the request handlers

\* The value of a property of an object, undefined when the object lacks it.
Field(object, name) == IF name \in DOMAIN object THEN object[name] ELSE UndefinedStr

\* new PublicKey(value): throws for a string that is no public key.
InvalidKey == "not-a-key"
WalletKey == "wallet-1"
NewPublicKey(value) ==
  IF value \in PublicKeys \cup {WalletKey} THEN Ret(value)
  ELSE Throw("Invalid public key input")

\* What a socket client can send with 'agentInstruction'.
InstructionData ==
  { Undefined,
    [agentId |-> "agent-1", instruction |-> "swap"],
    [agentId |-> "agent-1", instruction |-> "swap", walletAddress |-> WalletKey],
    [agentId |-> "agent-1", instruction |-> "swap", walletAddress |-> InvalidKey],
    [agentId |-> InvalidKey, instruction |-> "swap"],
    [agentId |-> "agent-1"],
    [agentId |-> "agent-1", instruction |-> ""],
    [instruction |-> "swap"] }

\* req.body of POST /agents/:id/process, an object (express.json(), index.ts line 34),
\* and req.params.id.
ProcessBodies ==
  { [instruction |-> "swap"],
    [instruction |-> "swap", walletAddress |-> WalletKey],
    [instruction |-> "swap", walletAddress |-> InvalidKey],
    [instruction |-> ""],
    [walletAddress |-> WalletKey] }

ProcessIds == {"agent-1", InvalidKey}

\* What agentManager.getAgent resolves to: an agent or null; it never rejects.
TheAgent == [instance |-> 1, kind |-> "defi", agentId |-> "agent-1"]
GetAgentOutcomes == {Resolved(TheAgent), Resolved(Null)}

\* How agent.processInstruction(instruction) ends: it throws at the call, or its
\* promise resolves to a result or rejects.
TheResult == [success |-> TRUE, message |-> "Instruction processed"]
ProcessOutcomes == {Throw("Error"), Resolved(TheResult), Rejected("Error")}

Emit(event, payload) == [event |-> event, payload |-> payload]
Send(status, body) == [status |-> status, body |-> body]

\* The handler sends a reply, or makes a call; it returns.
Reply(req, reply) == [req EXCEPT !.replies = Append(@, reply)]
Called(req, name) == [req EXCEPT !.trace = Append(@, name)]
Return(req) == [req EXCEPT !.pc = "done"]

\* index.ts lines 79-84: the catch block of the socket handler.
EmitError(req, message) == Return(Reply(req, Emit("error", message)))

\* index.ts lines 53-64: from the message to await agentManager.getAgent.
agentInstruction(req) ==
  IF IsNullish(req.data)
  THEN EmitError(req, "Cannot destructure property of undefined")
  ELSE
    IF Falsy(Field(req.data, "agentId")) \/ Falsy(Field(req.data, "instruction"))
    THEN Return(Reply(req, Emit("error", "Missing agentId or instruction")))
    ELSE
      IF NewPublicKey(Field(req.data, "agentId")).kind = "throw"
      THEN EmitError(req, NewPublicKey(Field(req.data, "agentId")).val)
      ELSE [Called(req, "getAgent") EXCEPT !.pc = "awaitAgent"]

\* index.ts line 76: agent.processInstruction(instruction) is called.
InstructionInvoke(req, outcome) ==
  IF outcome.kind = "throw"
  THEN EmitError([Called(req, "processInstruction") EXCEPT !.outcome = outcome],
                 outcome.val)
  ELSE [Called(req, "processInstruction") EXCEPT !.pc = "awaitProcess",
                                                 !.outcome = outcome]

\* A handler without the return of line 67: it goes on with agent null, and
\* agent.processInstruction throws a TypeError.
InstructionAgentNoReturn(req, agent, outcome) ==
  IF agent = Null
  THEN EmitError(Reply([req EXCEPT !.agent = agent], Emit("error", "Agent not found")),
                 "Cannot read properties of null")
  ELSE
    IF ~Falsy(Field(req.data, "walletAddress"))
    THEN
      IF NewPublicKey(Field(req.data, "walletAddress")).kind = "throw"
      THEN EmitError([req EXCEPT !.agent = agent],
                     NewPublicKey(Field(req.data, "walletAddress")).val)
      ELSE [Called(req, "setupAgentForWallet") EXCEPT !.pc = "awaitWallet",
                                                      !.agent = agent]
    ELSE InstructionInvoke([req EXCEPT !.agent = agent], outcome)

\* index.ts lines 64-76: from the agent to the next await.
InstructionAgent(req, agent, outcome) ==
  IF agent = Null
  THEN Return(Reply([req EXCEPT !.agent = agent], Emit("error", "Agent not found")))
  ELSE
    IF ~Falsy(Field(req.data, "walletAddress"))
    THEN
      IF NewPublicKey(Field(req.data, "walletAddress")).kind = "throw"
      THEN EmitError([req EXCEPT !.agent = agent],
                     NewPublicKey(Field(req.data, "walletAddress")).val)
      ELSE [Called(req, "setupAgentForWallet") EXCEPT !.pc = "awaitWallet",
                                                      !.agent = agent]
    ELSE InstructionInvoke([req EXCEPT !.agent = agent], outcome)

\* index.ts lines 72-76: after await walletManager.setupAgentForWallet, which resolves
\* to true or false and never rejects (wallet-manager.ts lines 67-84).
InstructionWallet(req, outcome) ==
  InstructionInvoke(Called(req, "setupAgentForWallet done"), outcome)

\* index.ts lines 76-84: after await agent.processInstruction.
InstructionResult(req) ==
  IF req.outcome.kind = "resolved"
  THEN Return(Reply(req, Emit("agentResponse", req.outcome.val)))
  ELSE EmitError(req, req.outcome.val)

\* wallet-manager.ts lines 232-238: the catch block of the route.
SendError(req, message) ==
  Return(Reply(req, Send(500, [error |-> "Failed to process instruction",
                               details |-> message])))

\* wallet-manager.ts lines 208-218: from the request to await agentManager.getAgent.
process(req) ==
  IF Falsy(Field(req.data, "instruction"))
  THEN Return(Reply(req, Send(400, [error |-> "Missing instruction"])))
  ELSE
    IF NewPublicKey(req.id).kind = "throw"
    THEN SendError(req, NewPublicKey(req.id).val)
    ELSE [Called(req, "getAgent") EXCEPT !.pc = "awaitAgent"]

\* wallet-manager.ts line 230: agent.processInstruction(instruction) is called.
ProcessInvoke(req, outcome) ==
  IF outcome.kind = "throw"
  THEN SendError([Called(req, "processInstruction") EXCEPT !.outcome = outcome],
                 outcome.val)
  ELSE [Called(req, "processInstruction") EXCEPT !.pc = "awaitProcess",
                                                 !.outcome = outcome]

\* A route that calls processInstruction before it looks at the agent and the wallet.
ProcessAgentInvokesFirst(req, agent, outcome) ==
  ProcessInvoke([req EXCEPT !.agent = agent], outcome)

\* wallet-manager.ts lines 218-230: from the agent to the next await.
ProcessAgent(req, agent, outcome) ==
  IF agent = Null
  THEN Return(Reply([req EXCEPT !.agent = agent],
                    Send(404, [error |-> "Agent not found"])))
  ELSE
    IF ~Falsy(Field(req.data, "walletAddress"))
    THEN
      IF NewPublicKey(Field(req.data, "walletAddress")).kind = "throw"
      THEN SendError([req EXCEPT !.agent = agent],
                     NewPublicKey(Field(req.data, "walletAddress")).val)
      ELSE [Called(req, "setupAgentForWallet") EXCEPT !.pc = "awaitWallet",
                                                      !.agent = agent]
    ELSE ProcessInvoke([req EXCEPT !.agent = agent], outcome)

\* wallet-manager.ts lines 226-230: after await walletManager.setupAgentForWallet.
ProcessWallet(req, outcome) ==
  ProcessInvoke(Called(req, "setupAgentForWallet done"), outcome)

\* wallet-manager.ts lines 230-238: after await agent.processInstruction.
ProcessResult(req) ==
  IF req.outcome.kind = "resolved"
  THEN Return(Reply(req, Send(200, req.outcome.val)))
  ELSE SendError(req, req.outcome.val)

HandlersInit == requests = [r \in 1..MaxRequests |-> Idle]

\* A request as it arrives.
NewRequest(via, id, data) ==
  [pc |-> "idle", via |-> via, id |-> id, data |-> data, agent |-> Undefined,
   outcome |-> Resolved(Undefined), trace |-> <<>>, replies |-> <<>>]

\* socket.on('agentInstruction', ...), index.ts line 52.
OnAgentInstruction(r) ==
  /\ requests[r].pc = "idle"
  /\ r > 1 => requests[r - 1].pc # "idle"
  /\ \E data \in InstructionData :
       requests' = [requests EXCEPT
                      ![r] = agentInstruction(NewRequest("socket", UndefinedStr, data))]
  /\ UNCHANGED <<registryVars, agentVars, marketVars, streamVars>>

OnInstructionAgent(r) ==
  /\ requests[r].pc = "awaitAgent" /\ requests[r].via = "socket"
  /\ \E agent \in GetAgentOutcomes, outcome \in ProcessOutcomes :
       requests' = [requests EXCEPT
                      ![r] = InstructionAgent(requests[r], agent.val, outcome)]
  /\ UNCHANGED <<registryVars, agentVars, marketVars, streamVars>>

OnInstructionWallet(r) ==
  /\ requests[r].pc = "awaitWallet" /\ requests[r].via = "socket"
  /\ \E outcome \in ProcessOutcomes :
       requests' = [requests EXCEPT ![r] = InstructionWallet(requests[r], outcome)]
  /\ UNCHANGED <<registryVars, agentVars, marketVars, streamVars>>

OnInstructionResult(r) ==
  /\ requests[r].pc = "awaitProcess" /\ requests[r].via = "socket"
  /\ requests' = [requests EXCEPT ![r] = InstructionResult(requests[r])]
  /\ UNCHANGED <<registryVars, agentVars, marketVars, streamVars>>

\* router.post('/agents/:id/process', ...), wallet-manager.ts line 208.
PostProcess(r) ==
  /\ requests[r].pc = "idle"
  /\ r > 1 => requests[r - 1].pc # "idle"
  /\ \E id \in ProcessIds, body \in ProcessBodies :
       requests' = [requests EXCEPT ![r] = process(NewRequest("http", id, body))]
  /\ UNCHANGED <<registryVars, agentVars, marketVars, streamVars>>

PostProcessAgent(r) ==
  /\ requests[r].pc = "awaitAgent" /\ requests[r].via = "http"
  /\ \E agent \in GetAgentOutcomes, outcome \in ProcessOutcomes :
       requests' = [requests EXCEPT
                      ![r] = ProcessAgent(requests[r], agent.val, outcome)]
  /\ UNCHANGED <<registryVars, agentVars, marketVars, streamVars>>

PostProcessWallet(r) ==
  /\ requests[r].pc = "awaitWallet" /\ requests[r].via = "http"
  /\ \E outcome \in ProcessOutcomes :
       requests' = [requests EXCEPT ![r] = ProcessWallet(requests[r], outcome)]
  /\ UNCHANGED <<registryVars, agentVars, marketVars, streamVars>>

PostProcessResult(r) ==
  /\ requests[r].pc = "awaitProcess" /\ requests[r].via = "http"
  /\ requests' = [requests EXCEPT ![r] = ProcessResult(requests[r])]
  /\ UNCHANGED <<registryVars, agentVars, marketVars, streamVars>>

NextHandlers ==
  \E r \in 1..MaxRequests :
    \/ OnAgentInstruction(r)
    \/ OnInstructionAgent(r)
    \/ OnInstructionWallet(r)
    \/ OnInstructionResult(r)
    \/ PostProcess(r)
    \/ PostProcessAgent(r)
    \/ PostProcessWallet(r)
    \/ PostProcessResult(r)

\* ------------------------------------------------------------- the state

\* pc: "new" before the constructor has run, "ready" after it returned, "failed" if
\*     it threw.
\* contexts: this.contexts.
\* stored: for every key, the value of the latest Map.set call on it (history).
\* inserted: the keys in the order of their first Map.set call (history).
\* last: the latest call: its name, argument and result, and this.contexts before it.

\* The latest value written under each key by a sequence of Map.set calls.
RECURSIVE ApplyWrites(_, _)
ApplyWrites(st, writes) ==
  IF writes = <<>> THEN st
  ELSE ApplyWrites([st EXCEPT ![Head(writes).key] = Head(writes).value], Tail(writes))

\* The keys in the order in which a sequence of Map.set calls first wrote them.
RECURSIVE ApplyFirst(_, _)
ApplyFirst(ins, writes) ==
  IF writes = <<>> THEN ins
  ELSE ApplyFirst(IF \E i \in DOMAIN ins : ins[i] = Head(writes).key
                  THEN ins ELSE Append(ins, Head(writes).key),
                  Tail(writes))

Init ==
  /\ pc = "new"
  /\ contexts = <<>>
  /\ stored = [k \in Keys |-> Undefined]
  /\ inserted = <<>>
  /\ last = [op |-> "none", arg |-> Undefined, res |-> Ret(Undefined), pre |-> <<>>]
  /\ AgentsInit
  /\ MarketInit
  /\ StreamInit
  /\ HandlersInit

\* new ContextManager(connection, contextPath), lines 44-51.
Construct ==
  /\ pc = "new"
  /\ \E dir \in Directories :
       LET r == loadContexts(<<>>, dir) IN
         /\ pc' = IF r.kind = "throw" THEN "failed" ELSE "ready"
         /\ contexts' = r.contexts
         /\ stored' = ApplyWrites(stored, r.writes)
         /\ inserted' = ApplyFirst(inserted, r.writes)
         /\ last' = [op |-> "constructor", arg |-> dir,
                     res |-> [kind |-> r.kind, val |-> Undefined],
                     pre |-> contexts, log |-> r.log, reads |-> r.reads,
                     loadedCount |-> r.loadedCount]
  /\ UNCHANGED <<agentVars, serviceVars>>

\* A getContext that deletes the entry it reads.
LookupDeletes ==
  /\ pc = "ready"
  /\ \E id \in QueryIds :
       /\ last' = [op |-> "getContext", arg |-> id, res |-> getContext(contexts, id),
                   pre |-> contexts]
       /\ contexts' = SelectSeq(contexts, LAMBDA entry : entry.key # id)
  /\ UNCHANGED <<pc, stored, inserted, agentVars, serviceVars>>

Lookup ==
  /\ pc = "ready"
  /\ \E id \in QueryIds :
       last' = [op |-> "getContext", arg |-> id, res |-> getContext(contexts, id),
                pre |-> contexts]
  /\ UNCHANGED <<pc, contexts, stored, inserted, agentVars, serviceVars>>

ListAll ==
  /\ pc = "ready"
  /\ last' = [op |-> "getAllContexts", arg |-> Undefined,
              res |-> getAllContexts(contexts), pre |-> contexts]
  /\ UNCHANGED <<pc, contexts, stored, inserted, agentVars, serviceVars>>

ListByType ==
  /\ pc = "ready"
  /\ \E type \in QueryTypes :
       last' = [op |-> "getContextsByType", arg |-> type,
                res |-> getContextsByType(contexts, type), pre |-> contexts]
  /\ UNCHANGED <<pc, contexts, stored, inserted, agentVars, serviceVars>>

FindByCapabilities ==
  /\ pc = "ready"
  /\ \E capabilities \in QueryLists :
       last' = [op |-> "findContextsByCapabilities", arg |-> capabilities,
                res |-> findContextsByCapabilities(contexts, capabilities),
                pre |-> contexts]
  /\ UNCHANGED <<pc, contexts, stored, inserted, agentVars, serviceVars>>

Register ==
  /\ pc = "ready"
  /\ \E contextDef \in RegisterInputs :
       LET r == registerContext(contexts, contextDef) IN
         /\ contexts' = r.contexts
         /\ stored' = ApplyWrites(stored, r.writes)
         /\ inserted' = ApplyFirst(inserted, r.writes)
         /\ last' = [op |-> "registerContext", arg |-> contextDef, res |-> r.res,
                     pre |-> contexts]
  /\ UNCHANGED <<pc, agentVars, serviceVars>>

CheckPermission ==
  /\ pc = "ready"
  /\ \E agentId \in AgentIds, contextId \in {JupiterId, NonexistentId} :
       last' = [op |-> "checkPermission", arg |-> <<agentId, contextId>>,
                res |-> checkPermission(agentId, contextId), pre |-> contexts]
  /\ UNCHANGED <<pc, contexts, stored, inserted, agentVars, serviceVars>>

GetContextsByType ==
  /\ pc = "ready"
  /\ \E type \in RouteTypes :
       last' = [op |-> "GET /contexts/type/:type", arg |-> type,
                res |-> ContextsByTypeRoute(contexts, type), pre |-> contexts]
  /\ UNCHANGED <<pc, contexts, stored, inserted, agentVars, serviceVars>>

GetContextById ==
  /\ pc = "ready"
  /\ \E id \in RouteIds :
       last' = [op |-> "GET /contexts/:id", arg |-> id,
                res |-> ContextByIdRoute(contexts, id), pre |-> contexts]
  /\ UNCHANGED <<pc, contexts, stored, inserted, agentVars, serviceVars>>

Next ==
  \/ Construct
  \/ Lookup
  \/ ListAll
  \/ ListByType
  \/ FindByCapabilities
  \/ Register
  \/ CheckPermission
  \/ GetContextsByType
  \/ GetContextById

Spec == Init /\ [][Next]_vars

\* The AgentManager alone: overlapping getAgent calls, interleaved at their awaits.
SpecAgents == Init /\ [][NextAgents]_vars

\* The CoinGeckoContext alone: overlapping getCoinPrice calls and the passing of time.
SpecCoinGecko == Init /\ [][NextCoinGecko]_vars

\* The BinanceContext alone: its WebSockets, their events and the reconnect timers.
SpecBinance == Init /\ [][NextBinance]_vars

\* The request handlers alone: socket messages and HTTP requests, interleaved at
\* their awaits.
SpecHandlers == Init /\ [][NextHandlers]_vars

\* ================================================================ claims

Range(seq) == { seq[i] : i \in DOMAIN seq }

\* ---- C1

\* C1: Lookup(id) returns exactly the record most recently stored under id by
\* Initialize or Register; after Register overwrites a held id, Lookup returns the new
\* record and not the old one.
C1_LookupReturnsLatestStored ==
  /\ pc = "ready" =>
       \A id \in Keys :
         stored[id] # Undefined => getContext(contexts, id) = Ret(stored[id])
  /\ (last.op = "getContext" /\ stored[last.arg] # Undefined) =>
       last.res = Ret(stored[last.arg])
  /\ (last.op = "registerContext" /\ ~IsNullish(last.arg)) =>
       getContext(contexts, IdOf(last.arg)) = Ret(last.arg)

\* Register has just replaced the Jupiter record held under its id by another one.
C1_Witness ==
  /\ last.op = "registerContext"
  /\ last.arg = JupiterMixedCase
  /\ MapGet(last.pre, JupiterId) = Jupiter
  /\ getContext(contexts, JupiterId) = Ret(JupiterMixedCase)

\* ---- C2

\* The record has every requested capability, compared case-insensitively.
HasEveryRequested(record, requested) ==
  \A i \in DOMAIN requested :
    /\ HasCapabilities(record)
    /\ \E k \in DOMAIN record.capabilities :
         toLowerCase(record.capabilities[k]) = toLowerCase(requested[i])

\* C2: in every registry state and for every requested list R, FindByCapabilities(R)
\* returns exactly the held records that have every element of R, compared
\* case-insensitively; FindByCapabilities([]) returns every held record.
C2_FindReturnsExactlySupersets ==
  pc = "ready" =>
    \A requested \in QueryLists :
      findContextsByCapabilities(contexts, requested) =
        Ret(SelectSeq(MapValues(contexts),
                      LAMBDA record : HasEveryRequested(record, requested)))

\* ---- C3

\* How often a record occurs in the ListByType results of the seven recognized types.
OccurrencesByType(record) ==
  Cardinality({ <<t, j>> \in ContextType \X (1..Len(contexts)) :
                  LET listed == getContextsByType(contexts, t).val IN
                    j \in DOMAIN listed /\ listed[j] = record })

\* C3: ListByType(t) is ListAll() filtered by type = t, and the ListByType results of
\* the seven recognized types partition ListAll(): every held record is in exactly one.
C3_TypesPartitionListAll ==
  pc = "ready" =>
    /\ \A t \in QueryTypes :
         getContextsByType(contexts, t) =
           Ret(SelectSeq(getAllContexts(contexts).val,
                         LAMBDA record : TypeOf(record) = t))
    /\ \A record \in Range(getAllContexts(contexts).val) :
         OccurrencesByType(record) = 1

\* ---- C4

DescriptorExtensions == {".yaml", ".yml", ".json"}

HasDescriptorExtension(entry) == entry.name[Len(entry.name)] \in DescriptorExtensions

\* The file's text parses, in the format its extension selects, to an object.
ParsesToObject(entry) ==
  LET parsed == ParseFile(entry.name, entry.content) IN
    parsed.kind = "return" /\ ~IsNullish(parsed.val)

DescriptorEntries(dir) == { i \in DOMAIN dir.files : HasDescriptorExtension(dir.files[i]) }

\* Initialize left N records, reported N, and read no file without a descriptor extension.
LoadedExactly(dir, n) ==
  /\ Len(contexts) = n
  /\ last.log = <<[level |-> "info", loadedCount |-> n]>>
  /\ \A i \in DOMAIN dir.files :
       ~HasDescriptorExtension(dir.files[i]) => dir.files[i].name \notin Range(last.reads)

\* C4 as stated: for every directory with N recognized and M other files, Initialize
\* leaves exactly N records and reports N; the M other files are never read.
C4_Original ==
  (last.op = "constructor" /\ last.arg.kind = "dir") =>
    LoadedExactly(last.arg, Cardinality(DescriptorEntries(last.arg)))

\* Every recognized file parses to an object, and no two of them carry the same id.
ValidDirectory(dir) ==
  /\ \A i \in DescriptorEntries(dir) : ParsesToObject(dir.files[i])
  /\ \A i, j \in DescriptorEntries(dir) :
       i # j => IdOf(dir.files[i].content.value) # IdOf(dir.files[j].content.value)

\* C4 (amended): for every directory whose N recognized files all parse to objects
\* with pairwise distinct ids, Initialize leaves exactly N records and reports N; the
\* M files with other extensions are never read and contribute no record.
C4_ValidDirectoryLoadsAll ==
  (last.op = "constructor" /\ last.arg.kind = "dir" /\ ValidDirectory(last.arg)) =>
    LoadedExactly(last.arg, Cardinality(DescriptorEntries(last.arg)))

\* A valid directory with a recognized file and an unrecognized one has been loaded.
C4_Witness ==
  /\ last.op = "constructor"
  /\ last.arg.kind = "dir"
  /\ ValidDirectory(last.arg)
  /\ DescriptorEntries(last.arg) # {}
  /\ DescriptorEntries(last.arg) # DOMAIN last.arg.files
  /\ Len(contexts) = Cardinality(DescriptorEntries(last.arg))

\* ---- C5

\* C5: when a descriptor file fails to parse, only that file is skipped: every other
\* recognized file that parses is still stored, and nothing is stored for the failing one.
C5_OnlyFailingFileSkipped ==
  (last.op = "constructor" /\ last.arg.kind = "dir") =>
    LET dir == last.arg
        parsing == { i \in DescriptorEntries(dir) : ParsesToObject(dir.files[i]) }
    IN
      /\ \A i \in parsing : MapHas(contexts, IdOf(dir.files[i].content.value))
      /\ Len(contexts) <= Cardinality(parsing)

\* ---- C6

\* C6: Register never rejects or throws, whatever its input; a fault during insertion
\* yields null and leaves the registry unchanged.
C6_RegisterNeverRejects ==
  last.op = "registerContext" =>
    /\ last.res.kind = "resolved"
    /\ IsNullish(last.arg) => (last.res.val = Null /\ contexts = last.pre)

\* ---- C7

\* C7: right after a successful Register(record), Lookup(record.id) returns the record,
\* ListAll() and ListByType(record.type) contain it, and FindByCapabilities(C) contains
\* it for every C drawn from record.capabilities.
C7_RegisteredIsVisibleAtOnce ==
  (last.op = "registerContext" /\ last.res = Resolved(NewContextId)) =>
    LET record == last.arg IN
      /\ getContext(contexts, IdOf(record)) = Ret(record)
      /\ record \in Range(getAllContexts(contexts).val)
      /\ record \in Range(getContextsByType(contexts, TypeOf(record)).val)
      /\ HasCapabilities(record) =>
           \A requested \in QueryLists :
             Range(requested) \subseteq Range(record.capabilities) =>
               LET found == findContextsByCapabilities(contexts, requested) IN
                 found.kind = "return" /\ record \in Range(found.val)

\* ---- C8

\* C8: constructing the registry never throws, whatever the descriptor directory is or
\* holds; when the directory does not exist the registry is empty: ListAll() is empty
\* and every Lookup returns absent.
C8_ConstructionNeverFails ==
  /\ pc # "failed"
  /\ last.op = "constructor" =>
       /\ last.res.kind = "return"
       /\ last.arg.kind = "missing" =>
            /\ getAllContexts(contexts) = Ret(<<>>)
            /\ \A id \in QueryIds : getContext(contexts, id) = Ret(Null)
            /\ last.log = <<[level |-> "warn"]>>

\* The registry has been constructed on a directory that does not exist.
C8_Witness ==
  /\ pc = "ready"
  /\ last.op = "constructor"
  /\ last.arg.kind = "missing"
  /\ contexts = <<>>

\* ---- C9

\* C9: GET /contexts/type/:type answers 400 for a type outside the enumeration and
\* answers successfully, with the matching records, for a recognized type.
C9_UnknownTypeIsClientError ==
  last.op = "GET /contexts/type/:type" =>
    IF last.arg \in ContextType
    THEN last.res.status = 200
         /\ last.res.body = getContextsByType(contexts, last.arg).val
    ELSE last.res.status = 400

\* ---- C10

RegistryOperations ==
  {"getContext", "getAllContexts", "getContextsByType", "findContextsByCapabilities",
   "registerContext", "checkPermission"}

\* C10: no public registry operation throws or rejects in any reachable registry state.
C10_NoOperationThrows ==
  /\ last.op \in RegistryOperations => last.res.kind \in {"return", "resolved"}
  /\ pc = "ready" =>
       /\ \A requested \in QueryLists :
            findContextsByCapabilities(contexts, requested).kind = "return"
       /\ \A contextDef \in RegisterInputs :
            registerContext(contexts, contextDef).res.kind = "resolved"

\* ---- C11

\* C11: a descriptor file that parses but is malformed (no id, or a type outside the
\* enumeration) is skipped: after Initialize every held record has a defined id and a
\* type of the enumeration.
C11_MalformedDescriptorsSkipped ==
  last.op = "constructor" =>
    \A i \in DOMAIN contexts :
      /\ contexts[i].key # UndefinedStr
      /\ IdOf(contexts[i].value) # UndefinedStr
      /\ TypeOf(contexts[i].value) \in ContextType

\* ---- C12

\* C12: ids are unique in every reachable state: ListAll() never holds two records with
\* the same id, and every record is stored under the key equal to its own id.
C12_IdsAreUnique ==
  LET all == getAllContexts(contexts).val IN
    /\ \A i, j \in DOMAIN all : i # j => IdOf(all[i]) # IdOf(all[j])
    /\ \A i, j \in DOMAIN contexts : i # j => contexts[i].key # contexts[j].key
    /\ \A i \in DOMAIN contexts : contexts[i].key = IdOf(contexts[i].value)

\* Register has just reused the id of a held record, with other fields.
C12_Witness ==
  /\ last.op = "registerContext"
  /\ ~IsNullish(last.arg)
  /\ MapHas(last.pre, IdOf(last.arg))
  /\ MapGet(last.pre, IdOf(last.arg)) # last.arg
  /\ Len(last.pre) >= 2
  /\ Len(contexts) = Len(last.pre)

\* ---- C13

\* C13: Lookup(id) never raises; it returns null for an id that is not held and a
\* non-null record exactly when a record is held under id.
C13_LookupAbsentIsNull ==
  /\ pc = "ready" =>
       \A id \in QueryIds :
         LET found == getContext(contexts, id) IN
           /\ found.kind = "return"
           /\ MapHas(contexts, id) <=> found.val # Null
           /\ ~MapHas(contexts, id) => found.val = Null
  /\ (last.op = "getContext" /\ ~MapHas(contexts, last.arg)) => last.res = Ret(Null)

\* Lookup has just been asked for an id that a non-empty registry does not hold.
C13_Witness ==
  /\ last.op = "getContext"
  /\ contexts # <<>>
  /\ ~MapHas(contexts, last.arg)
  /\ last.res = Ret(Null)

\* ---- C14

\* C14: GET /contexts/:id sends exactly one response: 404 with an error body when
\* Lookup returns absent, otherwise the record itself with no error status.
C14_ContextByIdSendsOneResponse ==
  last.op = "GET /contexts/:id" =>
    /\ Len(last.res) = 1
    /\ IF MapHas(contexts, last.arg)
       THEN last.res[1] = [status |-> 200, body |-> MapGet(contexts, last.arg)]
       ELSE last.res[1].status = 404 /\ DOMAIN last.res[1].body = {"error"}

\* The route has just answered 404 for an id that a non-empty registry does not hold.
C14_Witness ==
  /\ last.op = "GET /contexts/:id"
  /\ contexts # <<>>
  /\ ~MapHas(contexts, last.arg)
  /\ Len(last.res) = 1
  /\ last.res[1].status = 404

\* ---- C15

\* C15: the set of held ids never shrinks: no operation removes a record.
C15_HeldIdsNeverShrink ==
  [][\A id \in Keys : MapHas(contexts, id) => MapHas(contexts', id)]_vars

\* Register has just added a new id to a registry that held records, and kept them.
C15_Witness ==
  /\ last.op = "registerContext"
  /\ last.pre # <<>>
  /\ Len(contexts) = Len(last.pre) + 1
  /\ \A i \in DOMAIN last.pre : MapHas(contexts, last.pre[i].key)

\* ---- C16

\* C16: ListAll() returns every held record exactly once in the order in which the ids
\* were first inserted; re-registering an id replaces its record in place and changes
\* neither its position nor the length of the list.
C16_ListAllInFirstInsertionOrder ==
  /\ pc = "ready" =>
       getAllContexts(contexts).val = [i \in DOMAIN inserted |-> stored[inserted[i]]]
  /\ (last.op = "registerContext" /\ ~IsNullish(last.arg)
        /\ MapHas(last.pre, IdOf(last.arg))) =>
       /\ Len(contexts) = Len(last.pre)
       /\ \A i \in DOMAIN contexts : contexts[i].key = last.pre[i].key

\* Register has just replaced the record of the id inserted first, which stays first.
C16_Witness ==
  /\ last.op = "registerContext"
  /\ Len(last.pre) >= 2
  /\ ~IsNullish(last.arg)
  /\ last.pre[1].key = IdOf(last.arg)
  /\ last.pre[1].value # last.arg
  /\ getAllContexts(contexts).val[1] = last.arg
  /\ Len(getAllContexts(contexts).val) = Len(last.pre)

\* ---- C17

\* registerContext has no await, so a call runs to completion in one step and the only
\* suspension point of a caller is after the call.  The interleavings of concurrent
\* callers and readers are therefore the sequences of Register and read actions.

\* C17: an insertion is atomic for observers: in every state a read can see, each held
\* record is a whole record as passed to the latest insertion under its id, and an
\* insertion leaves every other entry as it was.
C17_InsertionIsAtomic ==
  /\ pc = "ready" =>
       \A i \in DOMAIN contexts :
         /\ contexts[i].value \in Descriptors
         /\ contexts[i].value = stored[contexts[i].key]
  /\ (last.op = "registerContext" /\ ~IsNullish(last.arg)) =>
       /\ \A i \in DOMAIN contexts :
            contexts[i].key # IdOf(last.arg) => contexts[i] \in Range(last.pre)
       /\ \A i \in DOMAIN last.pre :
            last.pre[i].key # IdOf(last.arg) => last.pre[i] \in Range(contexts)

\* Register has just inserted a record into a registry that held others.
C17_Witness ==
  /\ last.op = "registerContext"
  /\ last.res = Resolved(NewContextId)
  /\ last.pre # <<>>
  /\ contexts # last.pre
  /\ MapGet(contexts, IdOf(last.arg)) = last.arg

\* ---- C18

\* C18: CheckPermission returns true for every input, also for a contextId that the
\* registry does not hold, and leaves the registry unchanged.
C18_CheckPermissionAlwaysTrue ==
  /\ \A agentId \in AgentIds, contextId \in QueryIds :
       checkPermission(agentId, contextId) = Resolved(TRUE)
  /\ last.op = "checkPermission" =>
       last.res = Resolved(TRUE) /\ contexts = last.pre

\* CheckPermission has just been asked about a context the registry does not hold.
C18_Witness ==
  /\ last.op = "checkPermission"
  /\ ~MapHas(contexts, last.arg[2])
  /\ last.res = Resolved(TRUE)

\* ---- C19

\* C19: once getAgent(id) has returned a non-null agent, every later getAgent(id)
\* returns that same instance and creates no new agent.
C19_SameInstanceForRepeatedRequests ==
  \A c \in 1..MaxCalls :
    (calls[c].pc = "done" /\ calls[c].after # {}) =>
      /\ \A agent \in calls[c].after : calls[c].res = Resolved(agent)
      /\ ~calls[c].created

\* ---- C20

\* The call missed the cache and its type lookup or its construction gave no agent.
GotNoAgent(call) ==
  /\ call.pc = "done"
  /\ ~call.hit
  /\ \/ call.agentType.kind = "rejected"
     \/ call.agentType.val \notin {"defi", "nft"}
     \/ call.agent = Resolved(Null)

\* C20: getAgent resolves to null, and never rejects, for an agent whose type is
\* neither 'defi' nor 'nft' or whose type lookup or construction fails; it stores
\* nothing in the cache then, so the cache never answers a later call with null.
C20_UnknownTypeGivesNullAndNoCacheEntry ==
  /\ \A c \in 1..MaxCalls :
       /\ calls[c].pc = "done" => calls[c].res.kind = "resolved"
       /\ GotNoAgent(calls[c]) =>
            /\ calls[c].res = Resolved(Null)
            /\ ~calls[c].cached
            /\ ~calls[c].created \/ calls[c].agentType.val \in {"defi", "nft"}
  /\ \A i \in DOMAIN agents :
       /\ agents[i].value # Null
       /\ \E c \in 1..MaxCalls :
            /\ calls[c].pc = "done" /\ calls[c].cached
            /\ calls[c].agentId = agents[i].key
            /\ calls[c].agentType.val \in {"defi", "nft"}
  /\ \A c \in 1..MaxCalls :
       (calls[c].pc = "done" /\ calls[c].hit) => calls[c].res.val # Null

\* A call for an agent of type 'unknown' has returned null and left the cache without
\* an entry for it, and a later call for the same id has resolved the type again.
C20_Witness ==
  \E c, d \in 1..MaxCalls :
    /\ c < d
    /\ GotNoAgent(calls[c])
    /\ calls[c].agentType = Resolved("unknown")
    /\ calls[c].res = Resolved(Null)
    /\ calls[d].pc = "done"
    /\ calls[d].agentId = calls[c].agentId
    /\ ~calls[d].hit
    /\ ~MapHas(agents, calls[c].agentId)

\* ---- C27

\* The calls for id that wrote the cache entry of id.
CacheWrites(id) ==
  { c \in 1..MaxCalls : calls[c].pc = "done" /\ calls[c].agentId = id /\ calls[c].cached }

\* C27: at most one agent instance is ever handed out per agent id, and the cache
\* entry of an id is written once, under every interleaving of getAgent calls.
C27_OneInstancePerAgentId ==
  \A id \in PublicKeys :
    /\ Cardinality(returned[id]) <= 1
    /\ Cardinality(CacheWrites(id)) <= 1

\* ---- C30

ReadOperations ==
  {"getContext", "getAllContexts", "getContextsByType", "findContextsByCapabilities",
   "checkPermission"}

\* C30: Lookup, ListAll, ListByType, FindByCapabilities and CheckPermission leave the
\* registry mapping as it was before the call: the same ids, the same record under
\* each id, the same insertion order, whatever the arguments and whether the call
\* returns or throws.
C30_ReadsLeaveRegistryUnchanged ==
  last.op \in ReadOperations =>
    /\ contexts = last.pre
    /\ \A i \in DOMAIN contexts : stored[contexts[i].key] = contexts[i].value

\* A lookup of a held id has just returned its record from a registry of two records.
C30_Witness ==
  /\ last.op = "getContext"
  /\ Len(contexts) >= 2
  /\ MapHas(contexts, last.arg)
  /\ last.res = Ret(MapGet(contexts, last.arg))
  /\ contexts = last.pre

\* ---- C21

\* C21: when getCoinPrice calls for the same cache key are in flight together while
\* the key is not cached, at most one of them makes an upstream HTTP call, and all of
\* them receive the same result.
C21_RequestsCoalesce ==
  \A d \in 1..MaxLookups :
    lookups[d].pc # "idle" =>
      \A c \in lookups[d].inflight :
        /\ ~(lookups[c].sent /\ lookups[d].sent)
        /\ (lookups[c].pc = "done" /\ lookups[d].pc = "done") =>
             lookups[c].res = lookups[d].res

\* ---- C22

\* C22: for a CoinGeckoContext without API key, any two upstream HTTP calls are at
\* least RateLimitDelay milliseconds apart.
C22_UpstreamCallsSpaced ==
  (coingecko = "ready" /\ ~isProAccount) =>
    \A i, j \in DOMAIN upstream :
      i < j => upstream[j].at - upstream[i].at >= RateLimitDelay

\* ---- C23

\* C23: a getCoinPrice call that begins within PriceTTL seconds of the latest
\* successful store of a price under its key returns that price from the cache and
\* makes no upstream call, whatever the price is; one that begins later misses the
\* cache.
C23_PriceCachedForItsTTL ==
  \A d \in 1..MaxLookups :
    (lookups[d].pc # "idle" /\ lookups[d].prior # Undefined) =>
      IF lookups[d].start <= lookups[d].prior.at + PriceTTL * 1000
      THEN /\ lookups[d].hit
           /\ ~lookups[d].sent
           /\ lookups[d].res = Resolved(lookups[d].prior.v)
      ELSE ~lookups[d].hit

\* ---- C24

\* C24: close() closes every WebSocket that was opened and not yet closed, after any
\* sequence of connectToStream calls and reconnections: none is left connecting or
\* open by it.
C24_CloseClosesEverySocket ==
  closeCalled => leftOpen = {}

\* ---- C25

\* The connections opened by the reconnect timers of ws for the callback of ws.
Reconnections(ws) ==
  { new \in DOMAIN sockets :
      sockets[new].parent = ws /\ sockets[new].callback = sockets[ws].callback }

\* C25: while close() has not been called, a WebSocket that has emitted 'close' and
\* whose reconnect timers have all fired has been replaced by exactly one new
\* connection for the same stream and callback, also when it failed before it
\* received a message.
C25_OneReconnectionPerFailure ==
  ~closeCalled =>
    \A ws \in DOMAIN sockets :
      (sockets[ws].state = "closed" /\ \A i \in DOMAIN timers : timers[i] # ws) =>
        Cardinality(Reconnections(ws)) = 1

\* ---- C26

\* C26: no WebSocket is opened by the reconnect logic after close() has been called,
\* whatever the order of pending reconnect timers, late 'message' events and the
\* 'close' and 'error' events that follow close().
C26_NoReconnectionAfterClose ==
  \A ws \in DOMAIN sockets : ~(sockets[ws].parent # 0 /\ sockets[ws].afterClose)

\* ---- C28

\* C28: every 'agentInstruction' message whose handler has returned got exactly one
\* reply, an 'error' or an 'agentResponse', and a handler that has not returned has
\* sent none; the reply is the 'agentResponse' carrying the agent's result exactly when
\* processInstruction resolved.
C28_ExactlyOneReply ==
  \A r \in 1..MaxRequests :
    (requests[r].pc # "idle" /\ requests[r].via = "socket") =>
      LET req == requests[r] IN
        IF req.pc = "done"
        THEN /\ Len(req.replies) = 1
             /\ req.replies[1].event \in {"error", "agentResponse"}
             /\ req.replies[1].event = "agentResponse" <=>
                  req.outcome.kind = "resolved" /\
                  \E i \in DOMAIN req.trace : req.trace[i] = "processInstruction"
             /\ req.replies[1].event = "agentResponse" =>
                  req.replies[1].payload = req.outcome.val
        ELSE req.replies = <<>>

\* One message has been answered with the agent's result and another, whose agent was
\* not found, with an error.
C28_Witness ==
  \E r, q \in 1..MaxRequests :
    /\ requests[r].pc = "done" /\ requests[r].via = "socket"
    /\ requests[r].replies = <<Emit("agentResponse", TheResult)>>
    /\ requests[q].pc = "done" /\ requests[q].via = "socket"
    /\ requests[q].agent = Null
    /\ requests[q].replies = <<Emit("error", "Agent not found")>>

\* ---- C29

\* The positions in the calls made for a request at which name was called.
CallsOf(req, name) == { i \in DOMAIN req.trace : req.trace[i] = name }

\* C29: for POST /agents/:id/process, processInstruction is invoked at most once, only
\* after getAgent returned an agent and, when walletAddress is supplied, after
\* setupAgentForWallet has completed; a request without instruction gets 400 and one
\* whose agent is null gets 404, both without processInstruction being invoked and
\* with exactly one response; no request ever gets two responses.
C29_ProcessInvokedOnceAfterSetup ==
  \A r \in 1..MaxRequests :
    (requests[r].pc # "idle" /\ requests[r].via = "http") =>
      LET req == requests[r]
          invoked == CallsOf(req, "processInstruction")
      IN
        /\ Cardinality(invoked) <= 1
        /\ Len(req.replies) <= 1
        /\ \A i \in invoked :
             /\ req.agent = TheAgent
             /\ \E j \in CallsOf(req, "getAgent") : j < i
             /\ ~Falsy(Field(req.data, "walletAddress")) =>
                  \E j \in CallsOf(req, "setupAgentForWallet done") : j < i
        /\ Falsy(Field(req.data, "instruction")) =>
             /\ req.replies = <<Send(400, [error |-> "Missing instruction"])>>
             /\ req.trace = <<>>
        /\ req.agent = Null =>
             /\ req.replies = <<Send(404, [error |-> "Agent not found"])>>
             /\ invoked = {}

\* One request with a wallet address has been processed after the wallet was set up,
\* and another, whose agent resolved to null, was answered with 404.
C29_Witness ==
  \E r, q \in 1..MaxRequests :
    /\ requests[r].pc = "done" /\ requests[r].via = "http"
    /\ Field(requests[r].data, "walletAddress") = WalletKey
    /\ requests[r].trace =
         <<"getAgent", "setupAgentForWallet", "setupAgentForWallet done",
           "processInstruction">>
    /\ requests[r].replies = <<Send(200, TheResult)>>
    /\ requests[q].pc = "done" /\ requests[q].via = "http"
    /\ requests[q].agent = Null
    /\ requests[q].replies = <<Send(404, [error |-> "Agent not found"])>>

====
